---- MODULE Spec2Model ----
(***************************************************************************)
(* Model of uoapi.py: the Urban Observatory API client (class UrbanAPI).   *)
(*                                                                         *)
(* Python strings are sequences of one-character strings, so that URL      *)
(* joining, percent-encoding and formatting are computed character by      *)
(* character, the way urllib and str.format compute them.                  *)
(***************************************************************************)
EXTENDS Integers, Sequences, FiniteSets, TLC

(* ------------------------------------------------------------------ *)
(* Python str helpers                                                  *)
(* ------------------------------------------------------------------ *)

\* s.find(ch): 1-based index of the first ch in s, 0 when absent
Find(s, ch) ==
  IF \E i \in 1..Len(s) : s[i] = ch
  THEN CHOOSE i \in 1..Len(s) : s[i] = ch /\ \A j \in 1..(i - 1) : s[j] # ch
  ELSE 0

\* s[i:] with a 1-based first index
From(s, i) == SubSeq(s, i, Len(s))

\* s.startswith(p)
StartsWith(s, p) == Len(s) >= Len(p) /\ SubSeq(s, 1, Len(p)) = p

\* s.endswith(p)
EndsWith(s, p) == Len(s) >= Len(p) /\ SubSeq(s, Len(s) - Len(p) + 1, Len(s)) = p

\* p in s (substring test)
Contains(s, p) == \E i \in 1..(Len(s) - Len(p) + 1) : SubSeq(s, i, i + Len(p) - 1) = p

RECURSIVE Split(_, _)
\* s.split(ch)
Split(s, ch) ==
  IF Find(s, ch) = 0 THEN <<s>>
  ELSE <<SubSeq(s, 1, Find(s, ch) - 1)>> \o Split(From(s, Find(s, ch) + 1), ch)

RECURSIVE Join(_, _)
\* ch.join(parts)
Join(parts, ch) ==
  IF Len(parts) = 0 THEN <<>>
  ELSE IF Len(parts) = 1 THEN parts[1]
  ELSE parts[1] \o <<ch>> \o Join(Tail(parts), ch)

Digits == <<"0", "1", "2", "3", "4", "5", "6", "7", "8", "9">>

RECURSIVE StrNat(_)
\* str(n) for an int n >= 0
StrNat(n) == IF n < 10 THEN <<Digits[n + 1]>> ELSE StrNat(n \div 10) \o <<Digits[(n % 10) + 1]>>

RECURSIVE ZeroPad(_, _)
\* "%0<w>d" % n
ZeroPad(s, w) == IF Len(s) >= w THEN s ELSE ZeroPad(<<"0">> \o s, w)

(* ------------------------------------------------------------------ *)
(* urllib.parse, as called by get_url                                  *)
(* The strings of the model hold none of "?", "#", ";" and no upper    *)
(* case in a scheme, so a URL splits into scheme, netloc and path.     *)
(* ------------------------------------------------------------------ *)

Letters == {"a", "b", "c", "d", "e", "f", "g", "h", "i", "j", "k", "l", "m", "n", "o",
            "p", "q", "r", "s", "t", "u", "v", "w", "x", "y", "z"}

scheme_chars == Letters \cup {Digits[i] : i \in 1..10} \cup {"+", "-", "."}

uses_relative == {<<>>, <<"h", "t", "t", "p">>, <<"h", "t", "t", "p", "s">>}

uses_netloc == {<<>>, <<"h", "t", "t", "p">>, <<"h", "t", "t", "p", "s">>}

\* _splitnetloc(url, 2): the netloc runs to the next "/", the path is the rest
splitnetloc(scheme, after, delim) ==
  [scheme |-> scheme,
   netloc |-> IF delim = 0 THEN after ELSE SubSeq(after, 1, delim - 1),
   path |-> IF delim = 0 THEN <<>> ELSE From(after, delim)]

\* urlsplit after the scheme: if url[:2] == '//' the netloc is split off
split_after_scheme(scheme, rest) ==
  IF StartsWith(rest, <<"/", "/">>)
  THEN splitnetloc(scheme, From(rest, 3), Find(From(rest, 3), "/"))
  ELSE [scheme |-> scheme, netloc |-> <<>>, path |-> rest]

\* urlsplit's scheme test, i being url.find(':')
split_scheme(url, default_scheme, i) ==
  IF i > 1 /\ url[1] \in Letters /\ \A j \in 1..(i - 1) : url[j] \in scheme_chars
  THEN split_after_scheme(SubSeq(url, 1, i - 1), From(url, i + 1))
  ELSE split_after_scheme(default_scheme, url)

\* urlsplit(url, scheme)
urlsplit(url, default_scheme) == split_scheme(url, default_scheme, Find(url, ":"))

\* urlunsplit((scheme, netloc, path, "", "")) before the scheme is put in front
unsplit_netloc(scheme, netloc, path) ==
  IF netloc # <<>> \/ (scheme # <<>> /\ scheme \in uses_netloc
                       /\ ~StartsWith(path, <<"/", "/">>))
  THEN <<"/", "/">> \o netloc
       \o (IF path # <<>> /\ path[1] # "/" THEN <<"/">> ELSE <<>>) \o path
  ELSE path

\* urlunsplit((scheme, netloc, path, "", ""))
urlunsplit(scheme, netloc, path) ==
  IF scheme # <<>> THEN scheme \o <<":">> \o unsplit_netloc(scheme, netloc, path)
  ELSE unsplit_netloc(scheme, netloc, path)

\* segments[1:-1] = filter(None, segments[1:-1])
FilterMiddle(segments) ==
  IF Len(segments) <= 2 THEN segments
  ELSE <<segments[1]>>
       \o SelectSeq(SubSeq(segments, 2, Len(segments) - 1), LAMBDA x : x # <<>>)
       \o <<segments[Len(segments)]>>

RECURSIVE ResolveDots(_, _)
\* the loop over segments: ".." pops (ignored on an empty list), "." is skipped
ResolveDots(segments, resolved) ==
  IF Len(segments) = 0 THEN resolved
  ELSE IF segments[1] = <<".", ".">>
  THEN ResolveDots(Tail(segments),
                   IF Len(resolved) = 0 THEN resolved
                   ELSE SubSeq(resolved, 1, Len(resolved) - 1))
  ELSE IF segments[1] = <<".">> THEN ResolveDots(Tail(segments), resolved)
  ELSE ResolveDots(Tail(segments), Append(resolved, segments[1]))

\* base_parts: the base path's segments, without the last one unless it is empty
base_parts(parts) ==
  IF parts[Len(parts)] # <<>> THEN SubSeq(parts, 1, Len(parts) - 1) ELSE parts

\* the segments urljoin resolves: the relative path's alone if it is rooted
join_segments(bpath, path) ==
  IF path[1] = "/" THEN Split(path, "/")
  ELSE FilterMiddle(base_parts(Split(bpath, "/")) \o Split(path, "/"))

\* a last segment "." or ".." leaves a trailing separator
with_trailing(resolved, last) ==
  IF last = <<".">> \/ last = <<".", ".">> THEN Append(resolved, <<>>) ELSE resolved

\* '/'.join(resolved_path) or '/'
or_root(joined) == IF joined = <<>> THEN <<"/">> ELSE joined

resolved_path(segments) ==
  or_root(Join(with_trailing(ResolveDots(segments, <<>>), segments[Len(segments)]), "/"))

\* urljoin once both URLs are split
join_split(url, b, u) ==
  IF u.scheme # b.scheme \/ u.scheme \notin uses_relative THEN url
  ELSE IF u.scheme \in uses_netloc /\ u.netloc # <<>>
  THEN urlunsplit(u.scheme, u.netloc, u.path)
  ELSE IF u.path = <<>> THEN urlunsplit(u.scheme, b.netloc, b.path)
  ELSE urlunsplit(u.scheme, b.netloc, resolved_path(join_segments(b.path, u.path)))

join_base(url, b) == join_split(url, b, urlsplit(url, b.scheme))

\* urllib.parse.urljoin(base, url)
urljoin(base, url) ==
  IF base = <<>> THEN url
  ELSE IF url = <<>> THEN base
  ELSE join_base(url, urlsplit(base, <<>>))

\* quote_plus(ch) of one character: unreserved characters (letters, of which the
\* model's query values hold the upper-case T and Z, digits, "_.-~") pass, a space
\* becomes "+", anything else becomes %XX
quote_char(ch) ==
  IF ch \in Letters \/ ch \in {Digits[i] : i \in 1..10} \/ ch \in {"_", ".", "-", "~"}
     \/ ch \in {"T", "Z"}
  THEN <<ch>>
  ELSE IF ch = " " THEN <<"+">>
  ELSE IF ch = ":" THEN <<"%", "3", "A">>
  ELSE IF ch = "+" THEN <<"%", "2", "B">>
  ELSE IF ch = "/" THEN <<"%", "2", "F">>
  ELSE IF ch = "&" THEN <<"%", "2", "6">>
  ELSE IF ch = "=" THEN <<"%", "3", "D">>
  ELSE IF ch = "'" THEN <<"%", "2", "7">>
  ELSE <<"%", "2", "5">>  \* ch = "%"

RECURSIVE quote_plus(_)
\* urllib.parse.quote_plus(s)
quote_plus(s) == IF Len(s) = 0 THEN <<>> ELSE quote_char(s[1]) \o quote_plus(Tail(s))

(* ------------------------------------------------------------------ *)
(* Python values passed to and returned by the client                  *)
(* ------------------------------------------------------------------ *)

None == [type |-> "NoneType"]

PyStr(s) == [type |-> "str", v |-> s]

PyInt(n) == [type |-> "int", v |-> n]

\* datetime.datetime(2018, 1, 20, hour, 0, 0, microsecond), the date of test()
PyDatetime(hour, microsecond) ==
  [type |-> "datetime", hour |-> hour, microsecond |-> microsecond]

\* datetime.isoformat(): the fraction is printed only when it is not zero
isoformat(d) ==
  <<"2", "0", "1", "8", "-", "0", "1", "-", "2", "0", "T">>
  \o ZeroPad(StrNat(d.hour), 2) \o <<":", "0", "0", ":", "0", "0">>
  \o (IF d.microsecond # 0 THEN <<".">> \o ZeroPad(StrNat(d.microsecond), 6) ELSE <<>>)

\* str(v), as urlencode applies it to a parameter value
str(v) == IF v.type = "str" THEN v.v ELSE IF v.type = "int" THEN StrNat(v.v) ELSE isoformat(v)

RECURSIVE urlencode(_)
\* urllib.parse.urlencode(params): params is the dict's items in insertion order
urlencode(params) ==
  IF Len(params) = 0 THEN <<>>
  ELSE quote_plus(params[1][1]) \o <<"=">> \o quote_plus(str(params[1][2]))
       \o (IF Len(params) > 1 THEN <<"&">> \o urlencode(Tail(params)) ELSE <<>>)

Return(v) == [kind |-> "return", value |-> v]

Raise(exc, msg) == [kind |-> "raise", exc |-> exc, msg |-> msg]

\* response.json() of the bodies the model's server sends: an object, a list, or
\* text that is no JSON and makes the decoder raise
json(content) ==
  IF content = <<"{", "}">> THEN Return([type |-> "dict", items |-> <<>>])
  ELSE IF Len(content) = 3 /\ content[1] = "[" /\ content[3] = "]"
          /\ \E i \in 1..10 : Digits[i] = content[2]
  THEN Return([type |-> "list",
               items |-> <<(CHOOSE i \in 1..10 : Digits[i] = content[2]) - 1>>])
  ELSE Raise("JSONDecodeError", <<>>)

(* ------------------------------------------------------------------ *)
(* class UrbanAPI                                                      *)
(* ------------------------------------------------------------------ *)

\* UrbanAPI.api_version default, as str() prints it
api_version == <<"0", ".", "1">>

base_url ==
  <<"h", "t", "t", "p", "s", ":", "/", "/", "a", "p", "i", ".", "u", "s", "b", ".",
    "u", "r", "b", "a", "n", "o", "b", "s", "e", "r", "v", "a", "t", "o", "r", "y", ".",
    "a", "c", ".", "u", "k", "/", "a", "p", "i", "/", "v", "{", "}", "/">>

\* the class attribute REST_METHODS as the class body creates it
REST_METHODS_0 ==
  [m \in {"entities", "feed", "timeseries", "summary"} |->
     CASE m = "entities" -> <<"s", "e", "n", "s", "o", "r", "s", "/", "e", "n", "t", "i", "t", "y">>
       [] m = "feed" -> <<"s", "e", "n", "s", "o", "r", "s", "/", "f", "e", "e", "d">>
       [] m = "timeseries" -> <<"s", "e", "n", "s", "o", "r", "s", "/", "t", "i", "m", "e",
                                "s", "e", "r", "i", "e", "s">>
       [] m = "summary" -> <<"s", "e", "n", "s", "o", "r", "s", "/", "s", "u", "m", "m", "a", "r", "y">>]

\* template.format(version): the first "{}" is replaced by str(version)
format_at(template, version, i) ==
  IF i = 0 \/ i = Len(template) \/ template[i + 1] # "}" THEN template
  ELSE SubSeq(template, 1, i - 1) \o version \o From(template, i + 2)

format(template, version) == format_at(template, version, Find(template, "{"))

\* __init__(api_version, base_url): the instance's fields
init(version, template) ==
  [api_version |-> version,
   base_url |-> format(IF template # None THEN template.v ELSE base_url, version)]

\* create_method keeping the path a name already has (dict.setdefault)
create_method_setdefault(registry, method, path) ==
  [k \in DOMAIN registry \cup {method} |-> IF k \in DOMAIN registry THEN registry[k] ELSE path]

\* create_method: self.REST_METHODS[method] = path, on the dict the attribute
\* lookup finds, which is the class's
create_method(registry, method, path) ==
  [k \in DOMAIN registry \cup {method} |-> IF k = method THEN path ELSE registry[k]]

RECURSIVE join_components(_, _)
\* for p in path_components: url = urljoin(url, p + '/')
join_components(url, path_components) ==
  IF Len(path_components) = 0 THEN url
  ELSE join_components(urljoin(url, path_components[1] \o <<"/">>), Tail(path_components))

\* get_url(method, path_components, params) on an instance with this base_url,
\* reading the class's registry
\* if params is not None: url = "?".join((url, urlencode(params)))
with_params(url, params) ==
  IF params # None THEN url \o <<"?">> \o urlencode(params.items) ELSE url

\* get_url looking the method up with dict.get(method, "")
get_url_default(self_base_url, registry, method, path_components, params) ==
  Return(with_params(join_components(
                       urljoin(self_base_url,
                               IF method \in DOMAIN registry THEN registry[method] ELSE <<>>)
                       \o <<"/">>,
                       path_components),
                     params))

get_url(self_base_url, registry, method, path_components, params) ==
  IF method \notin DOMAIN registry THEN Raise("KeyError", <<>>)
  ELSE Return(with_params(join_components(urljoin(self_base_url, registry[method]) \o <<"/">>,
                                          path_components),
                          params))

\* the dict literal {"k": v, ...} passed as params
Dict(items) == [type |-> "dict", items |-> items]

\* the message of APIRequestException: "Status: {0}\n\n{1}".format(status, content),
\* content being bytes
status_message(status_code, content) ==
  <<"S", "t", "a", "t", "u", "s", ":", " ">> \o StrNat(status_code) \o <<"\n", "\n">>
  \o <<"b", "'">> \o content \o <<"'">>

\* resolve comparing the status with 200 whatever expected_response is
resolve_result_200(status_code, content, expected_response) ==
  IF status_code = 200 THEN json(content)
  ELSE Raise("APIRequestException", status_message(status_code, content))

\* resolve after requests.get returned a response
resolve_result(status_code, content, expected_response) ==
  IF status_code = expected_response THEN json(content)
  ELSE Raise("APIRequestException", status_message(status_code, content))

\* start_time normalized without replace(microsecond=0)
normalize_start_keep_microsecond(start_time) ==
  IF start_time.type = "datetime" THEN PyStr(isoformat(start_time)) ELSE start_time

\* if type(start_time) is datetime.datetime:
\*     start_time = start_time.replace(microsecond=0).isoformat()
normalize_start(start_time) ==
  IF start_time.type = "datetime"
  THEN PyStr(isoformat([start_time EXCEPT !.microsecond = 0]))
  ELSE start_time

\* if type(end_time) is datetime.datetime: end_time = end_time.isoformat()
normalize_end(end_time) ==
  IF end_time.type = "datetime" THEN PyStr(isoformat(end_time)) ELSE end_time

\* the type check on the normalized values
unrecognised_type(st, et) == st.type # "str" /\ et.type # "str"

historic == <<"h", "i", "s", "t", "o", "r", "i", "c">>

\* the branch taken when both times are given, st and et being the normalized values
historic_window(self_base_url, registry, entity_uuid, st, et) ==
  IF unrecognised_type(st, et) THEN Raise("TypeError", <<>>)
  ELSE get_url(self_base_url, registry, "timeseries", <<entity_uuid, historic>>,
               Dict(<<<<<<"s", "t", "a", "r", "t", "T", "i", "m", "e">>, st>>,
                      <<<<"e", "n", "d", "T", "i", "m", "e">>, et>>>>))

\* get_timeseries testing last_24 before the times
timeseries_url_flag_first(self_base_url, registry, entity_uuid, start_time, end_time, last_24) ==
  IF last_24
  THEN get_url(self_base_url, registry, "timeseries", <<entity_uuid, historic>>, None)
  ELSE IF start_time # None /\ end_time # None
  THEN historic_window(self_base_url, registry, entity_uuid,
                       normalize_start(start_time), normalize_end(end_time))
  ELSE get_url(self_base_url, registry, "timeseries", <<entity_uuid>>, None)

\* get_timeseries taking the last_24 branch only when no time is given
timeseries_url_flag_alone(self_base_url, registry, entity_uuid, start_time, end_time, last_24) ==
  IF start_time # None /\ end_time # None
  THEN historic_window(self_base_url, registry, entity_uuid,
                       normalize_start(start_time), normalize_end(end_time))
  ELSE IF last_24 /\ start_time = None /\ end_time = None
  THEN get_url(self_base_url, registry, "timeseries", <<entity_uuid, historic>>, None)
  ELSE get_url(self_base_url, registry, "timeseries", <<entity_uuid>>, None)

\* get_timeseries up to the request: the URL it asks for, or the exception
timeseries_url(self_base_url, registry, entity_uuid, start_time, end_time, last_24) ==
  IF start_time # None /\ end_time # None
  THEN historic_window(self_base_url, registry, entity_uuid,
                       normalize_start(start_time), normalize_end(end_time))
  ELSE IF last_24
  THEN get_url(self_base_url, registry, "timeseries", <<entity_uuid, historic>>, None)
  ELSE get_url(self_base_url, registry, "timeseries", <<entity_uuid>>, None)

(* ------------------------------------------------------------------ *)
(* The values the calls of the model are made with                     *)
(* ------------------------------------------------------------------ *)

\* identities of the UrbanAPI objects a program creates
Instances == {"c1", "c2"}

\* method names looked up, and the ones create_method is called with
MethodNames == {"entities", "feed", "timeseries", "summary", "custom"}

CreateNames == {"timeseries", "custom"}

\* paths given to create_method: a relative one and a rooted one
Paths == {<<"x">>, <<"/", "r">>}

\* path components and identifiers: plain, empty, beginning with a separator
Components == {<<"a">>, <<>>, <<"/", "b">>}

EntityIds == {<<"a">>, <<"/", "b">>}

\* longest path_components list given to get_url
MaxComponents == 2

RECURSIVE SeqsUpTo(_, _)
SeqsUpTo(S, n) ==
  IF n = 0 THEN {<<>>}
  ELSE LET shorter == SeqsUpTo(S, n - 1)
       IN shorter \cup {Append(q, x) : q \in {r \in shorter : Len(r) = n - 1}, x \in S}

ComponentLists == SeqsUpTo(Components, MaxComponents)

\* constructor arguments (api_version, base_url): the defaults, and another version
\* with a template that has no trailing separator
ConstructorArgs ==
  {<<api_version, None>>,
   <<<<"2">>, PyStr(<<"h", "t", "t", "p", ":", "/", "/", "h", "/", "v", "{", "}">>)>>}

\* start_time / end_time arguments: absent, a timestamp string, a datetime with a
\* sub-second part, and a value of another type
TimeString == <<"2", "0", "1", "8", "-", "0", "1", "-", "2", "0", "T", "0", "0", ":",
                "0", "0", ":", "0", "0", "Z">>

TimeValues == {None, PyStr(TimeString), PyDatetime(1, 5), PyInt(5)}

Pages == {PyInt(0)}

ParamDicts == {None, Dict(<<<<<<"p", "a", "g", "e">>, PyInt(0)>>>>)}

\* what the server answers
StatusCodes == {200, 404}

Contents == {<<"{", "}">>, <<"[", "1", "]">>, <<"o", "o", "p", "s">>}

ResolveUrls == {<<"h", "t", "t", "p", ":", "/", "/", "h", "/">>}

(* ------------------------------------------------------------------ *)
(* State                                                               *)
(* ------------------------------------------------------------------ *)

VARIABLES
  REST_METHODS,  \* the class attribute UrbanAPI.REST_METHODS, one dict for all instances
  instances,     \* the fields of each constructed UrbanAPI object
  call,          \* the call being made, or the last one made, and its outcome
  sent,          \* the URLs requests.get was called with during that call
  written        \* history: the path of the latest create_method call for each name

vars == <<REST_METHODS, instances, call, sent, written>>

NoInstance == [api_version |-> <<>>, base_url |-> <<>>]

NoOutcome == [kind |-> "none"]

NoResponse == [status_code |-> 0, content |-> <<>>]

Accessors == {"get_entities", "get_single_entity", "get_feed", "get_timeseries", "get_summary"}

Constructed == {c \in Instances : instances[c] # NoInstance}

\* no call is being made: the caller is between two calls
Idle == call.pc = "idle"

NoCall == [op |-> "none", self |-> "none", args |-> <<>>, pc |-> "idle",
           expected |-> 200, response |-> NoResponse, outcome |-> NoOutcome]

Init ==
  /\ REST_METHODS = REST_METHODS_0
  /\ instances = [c \in Instances |-> NoInstance]
  /\ call = NoCall
  /\ sent = <<>>
  /\ written = <<>>

\* a call that involves no request: it is over when it is made
Finished(op, c, args, outcome) ==
  /\ call' = [op |-> op, self |-> c, args |-> args, pc |-> "done",
              expected |-> 200, response |-> NoResponse, outcome |-> outcome]
  /\ sent' = <<>>

\* resolve(url, expected_response) up to requests.get(url)
Requesting(op, c, args, url, expected_response) ==
  /\ call' = [op |-> op, self |-> c, args |-> args, pc |-> "waiting",
              expected |-> expected_response, response |-> NoResponse,
              outcome |-> NoOutcome]
  /\ sent' = <<url>>

\* url = self.get_url(...); return self.resolve(url)
Access(op, c, args, built) ==
  IF built.kind = "raise" THEN Finished(op, c, args, built)
  ELSE Requesting(op, c, args, built.value, 200)

Construct(c, version, template) ==
  /\ Idle
  /\ instances[c] = NoInstance
  /\ instances' = [instances EXCEPT ![c] = init(version, template)]
  /\ UNCHANGED <<REST_METHODS, call, sent, written>>

CreateMethod(c, method, path) ==
  /\ Idle
  /\ c \in Constructed
  /\ REST_METHODS' = create_method(REST_METHODS, method, path)
  /\ Finished("create_method", c, [method |-> method, path |-> path], Return(None))
  /\ written' = [k \in DOMAIN written \cup {method} |->
                   IF k = method THEN path ELSE written[k]]
  /\ UNCHANGED instances

GetUrl(c, method, path_components, params) ==
  /\ Idle
  /\ c \in Constructed
  /\ Finished("get_url", c,
              [method |-> method, path_components |-> path_components, params |-> params],
              get_url(instances[c].base_url, REST_METHODS, method, path_components, params))
  /\ UNCHANGED <<REST_METHODS, instances, written>>

Resolve(c, url, expected_response) ==
  /\ Idle
  /\ c \in Constructed
  /\ Requesting("resolve", c, [url |-> url], url, expected_response)
  /\ UNCHANGED <<REST_METHODS, instances, written>>

GetEntities(c, page) ==
  /\ Idle
  /\ c \in Constructed
  /\ Access("get_entities", c, [page |-> page],
            get_url(instances[c].base_url, REST_METHODS, "entities", <<>>,
                    Dict(<<<<<<"p", "a", "g", "e">>, page>>>>)))
  /\ UNCHANGED <<REST_METHODS, instances, written>>

GetSingleEntity(c, entity_uuid) ==
  /\ Idle
  /\ c \in Constructed
  /\ Access("get_single_entity", c, [entity_uuid |-> entity_uuid],
            get_url(instances[c].base_url, REST_METHODS, "entities", <<entity_uuid>>, None))
  /\ UNCHANGED <<REST_METHODS, instances, written>>

GetFeed(c, entity_uuid) ==
  /\ Idle
  /\ c \in Constructed
  /\ Access("get_feed", c, [entity_uuid |-> entity_uuid],
            get_url(instances[c].base_url, REST_METHODS, "feed", <<entity_uuid>>, None))
  /\ UNCHANGED <<REST_METHODS, instances, written>>

GetTimeseries(c, entity_uuid, start_time, end_time, last_24) ==
  /\ Idle
  /\ c \in Constructed
  /\ Access("get_timeseries", c,
            [entity_uuid |-> entity_uuid, start_time |-> start_time,
             end_time |-> end_time, last_24 |-> last_24],
            timeseries_url(instances[c].base_url, REST_METHODS, entity_uuid,
                           start_time, end_time, last_24))
  /\ UNCHANGED <<REST_METHODS, instances, written>>

GetSummary(c) ==
  /\ Idle
  /\ c \in Constructed
  /\ Access("get_summary", c, <<>>,
            get_url(instances[c].base_url, REST_METHODS, "summary", <<>>, None))
  /\ UNCHANGED <<REST_METHODS, instances, written>>

\* resolve asking once more when the status is not the expected one
after_response_retry(c, s, status_code, content) ==
  IF status_code # c.expected /\ Len(s) < 2
  THEN [call |-> c, sent |-> Append(s, s[1])]
  ELSE [call |-> [c EXCEPT !.pc = "done",
                           !.response = [status_code |-> status_code, content |-> content],
                           !.outcome = resolve_result(status_code, content, c.expected)],
        sent |-> s]

\* the rest of resolve once requests.get has returned: the call ends with the
\* parsed body or with an exception, and nothing more is sent
after_response(c, s, status_code, content) ==
  [call |-> [c EXCEPT !.pc = "done",
                      !.response = [status_code |-> status_code, content |-> content],
                      !.outcome = resolve_result(status_code, content, c.expected)],
   sent |-> s]

Response(status_code, content) ==
  /\ call.pc = "waiting"
  /\ call' = after_response(call, sent, status_code, content).call
  /\ sent' = after_response(call, sent, status_code, content).sent
  /\ UNCHANGED <<REST_METHODS, instances, written>>

\* requests.get raises (connection refused, timeout, DNS failure): nothing catches it
TransportError ==
  /\ call.pc = "waiting"
  /\ call' = [call EXCEPT !.pc = "done", !.outcome = Raise("ConnectionError", <<>>)]
  /\ UNCHANGED <<REST_METHODS, instances, sent, written>>

\* the caller has the call's value or exception and goes on to its next call
Returned ==
  /\ call.pc = "done"
  /\ call' = NoCall
  /\ sent' = <<>>
  /\ UNCHANGED <<REST_METHODS, instances, written>>

Next ==
  \/ \E c \in Instances, a \in ConstructorArgs : Construct(c, a[1], a[2])
  \/ \E c \in Instances, method \in CreateNames, path \in Paths : CreateMethod(c, method, path)
  \/ \E c \in Instances, method \in MethodNames, path_components \in ComponentLists,
        params \in ParamDicts : GetUrl(c, method, path_components, params)
  \/ \E c \in Instances, url \in ResolveUrls, expected_response \in StatusCodes :
       Resolve(c, url, expected_response)
  \/ \E c \in Instances, page \in Pages : GetEntities(c, page)
  \/ \E c \in Instances, entity_uuid \in EntityIds : GetSingleEntity(c, entity_uuid)
  \/ \E c \in Instances, entity_uuid \in EntityIds : GetFeed(c, entity_uuid)
  \/ \E c \in Instances, entity_uuid \in EntityIds, start_time \in TimeValues,
        end_time \in TimeValues, last_24 \in BOOLEAN :
       GetTimeseries(c, entity_uuid, start_time, end_time, last_24)
  \/ \E c \in Instances : GetSummary(c)
  \/ \E status_code \in StatusCodes, content \in Contents : Response(status_code, content)
  \/ TransportError
  \/ Returned

Spec == Init /\ [][Next]_vars

(* ------------------------------------------------------------------ *)
(* Reading a call and a URL                                            *)
(* ------------------------------------------------------------------ *)

\* base_url of the instance the call is made on
SelfBase == instances[call.self].base_url

\* the URL before its first "?", and what follows it
PathPart(url) == IF Find(url, "?") = 0 THEN url ELSE SubSeq(url, 1, Find(url, "?") - 1)

QueryPart(url) == IF Find(url, "?") = 0 THEN <<>> ELSE From(url, Find(url, "?") + 1)

HasQuery(url) == Find(url, "?") # 0

RECURSIVE AppendAll(_, _)
\* url followed by every component in order, each followed by one separator
AppendAll(url, components) ==
  IF Len(components) = 0 THEN url
  ELSE AppendAll(url \o components[1] \o <<"/">>, Tail(components))

\* an identifier that is one ordinary path segment
PlainId(id) == id # <<>> /\ Find(id, "/") = 0 /\ id # <<".">> /\ id # <<".", ".">>

RECURSIVE Unquote(_)
\* the string a percent-encoded query value stands for
Unquote(s) ==
  IF Len(s) = 0 THEN <<>>
  ELSE IF s[1] = "+" THEN <<" ">> \o Unquote(Tail(s))
  ELSE IF s[1] = "%" /\ Len(s) >= 3
  THEN <<CASE SubSeq(s, 2, 3) = <<"3", "A">> -> ":"
           [] SubSeq(s, 2, 3) = <<"2", "B">> -> "+"
           [] SubSeq(s, 2, 3) = <<"2", "F">> -> "/"
           [] SubSeq(s, 2, 3) = <<"2", "6">> -> "&"
           [] SubSeq(s, 2, 3) = <<"3", "D">> -> "="
           [] SubSeq(s, 2, 3) = <<"2", "7">> -> "'"
           [] OTHER -> "%">> \o Unquote(From(s, 4))
  ELSE <<s[1]>> \o Unquote(Tail(s))

\* the decoded value of `key` in the URL's query string, <<"?">> when it has none
QueryValue(url, key) ==
  LET pairs == Split(QueryPart(url), "&")
      hits == {i \in 1..Len(pairs) : StartsWith(pairs[i], key \o <<"=">>)}
  IN IF hits = {} THEN <<"?">>
     ELSE Unquote(From(pairs[CHOOSE i \in hits : TRUE], Len(key) + 2))

startTime == <<"s", "t", "a", "r", "t", "T", "i", "m", "e">>

endTime == <<"e", "n", "d", "T", "i", "m", "e">>

\* the ISO-8601 text of datetime(2018, 1, 20, 1, 0, 0, 5), with and without its
\* sub-second part
IsoWhole == <<"2", "0", "1", "8", "-", "0", "1", "-", "2", "0", "T", "0", "1", ":",
              "0", "0", ":", "0", "0">>

IsoFraction == IsoWhole \o <<".", "0", "0", "0", "0", "0", "5">>

IsTimeseries == call.op = "get_timeseries"

BothTimes == call.args.start_time # None /\ call.args.end_time # None

NoTimes == call.args.start_time = None /\ call.args.end_time = None

OneTime == ~BothTimes /\ ~NoTimes

\* a completed call whose request was answered
Responded == call.pc = "done" /\ call.response # NoResponse

(* ------------------------------------------------------------------ *)
(* C1                                                                  *)
(* ------------------------------------------------------------------ *)

\* C1 as stated: a call that got a response returns the parsed body if and only if
\* the status equals the expected code, and raises APIRequestException otherwise;
\* the status alone decides.
C1_StatusAloneDecides ==
  Responded =>
    /\ (call.outcome.kind = "return") <=> (call.response.status_code = call.expected)
    /\ call.response.status_code # call.expected =>
         call.outcome.kind = "raise" /\ call.outcome.exc = "APIRequestException"

\* C1 amended: with a status other than the expected one the call raises
\* APIRequestException whose message holds the actual status and the raw body, and
\* returns nothing; with the expected status it returns the parsed body when the
\* body is JSON, and the decoder's error propagates when it is not.
C1_StatusThenBody ==
  Responded =>
    IF call.response.status_code # call.expected
    THEN /\ call.outcome.kind = "raise"
         /\ call.outcome.exc = "APIRequestException"
         /\ Contains(call.outcome.msg, StrNat(call.response.status_code))
         /\ Contains(call.outcome.msg, call.response.content)
    ELSE /\ call.outcome = json(call.response.content)
         /\ call.response.content = <<"{", "}">> =>
              call.outcome.kind = "return" /\ call.outcome.value.type = "dict"
         /\ call.response.content = <<"[", "1", "]">> =>
              call.outcome.kind = "return" /\ call.outcome.value = [type |-> "list", items |-> <<1>>]
         /\ call.response.content = <<"o", "o", "p", "s">> =>
              call.outcome.kind = "raise" /\ call.outcome.exc = "JSONDecodeError"

\* resolve(url, 404) answered with status 404 returned the parsed body
C1_Witness ==
  /\ call.op = "resolve" /\ Responded
  /\ call.expected = 404 /\ call.response.status_code = 404
  /\ call.outcome.kind = "return"

(* ------------------------------------------------------------------ *)
(* C2                                                                  *)
(* ------------------------------------------------------------------ *)

\* C2 as stated, on an instance constructed with the default arguments: the path of
\* the URL get_url returns is the base URL, the registered path, and every component
\* in the order given, each followed by one separator.
C2_ComponentsAppended ==
  (/\ call.op = "get_url" /\ call.pc = "done" /\ call.outcome.kind = "return"
   /\ instances[call.self] = init(api_version, None)) =>
    PathPart(call.outcome.value)
      = AppendAll(SelfBase \o REST_METHODS[call.args.method] \o <<"/">>,
                  call.args.path_components)

(* ------------------------------------------------------------------ *)
(* C3                                                                  *)
(* ------------------------------------------------------------------ *)

\* C3: get_url with a name that is neither built in nor given to an earlier
\* create_method raises KeyError and returns no URL.
C3_UnknownMethodRaises ==
  (/\ call.op = "get_url" /\ call.pc = "done"
   /\ call.args.method \notin DOMAIN REST_METHODS_0 \cup DOMAIN written) =>
    call.outcome.kind = "raise" /\ call.outcome.exc = "KeyError"

\* after a create_method call, get_url("custom") still failed
C3_Witness ==
  /\ call.op = "get_url" /\ call.pc = "done"
  /\ call.args.method = "custom"
  /\ written # <<>>
  /\ call.outcome.kind = "raise"

(* ------------------------------------------------------------------ *)
(* C4                                                                  *)
(* ------------------------------------------------------------------ *)

\* C4: get_url(m) builds its URL from the path of the latest create_method(m, path),
\* or from the built-in path when there was none; no earlier path of m is in it.
C4_LastWriteWins ==
  (/\ call.op = "get_url" /\ call.pc = "done"
   /\ call.args.method \in DOMAIN REST_METHODS_0 \cup DOMAIN written) =>
    LET m == call.args.method
        path == IF m \in DOMAIN written THEN written[m] ELSE REST_METHODS_0[m]
    IN /\ call.outcome.kind = "return"
       /\ call.outcome.value
            = with_params(join_components(urljoin(SelfBase, path) \o <<"/">>,
                                          call.args.path_components),
                          call.args.params)

\* get_url("timeseries") after create_method("timeseries", "x") replaced the
\* built-in path
C4_Witness ==
  /\ call.op = "get_url" /\ call.pc = "done"
  /\ call.args.method = "timeseries"
  /\ "timeseries" \in DOMAIN written /\ written["timeseries"] = <<"x">>
  /\ call.outcome.kind = "return"

(* ------------------------------------------------------------------ *)
(* C5                                                                  *)
(* ------------------------------------------------------------------ *)

\* base URL joined with the registered timeseries path, as get_url starts
TimeseriesStem == urljoin(SelfBase, REST_METHODS["timeseries"]) \o <<"/">>

StaysNonString(v) == v.type \notin {"str", "datetime"}

\* C6 as stated: with both times given and either one still not a string after
\* normalization, the call raises TypeError, builds no URL and sends no request.
C6_EitherNonStringRaises ==
  (/\ IsTimeseries /\ BothTimes
   /\ (StaysNonString(call.args.start_time) \/ StaysNonString(call.args.end_time))) =>
    /\ call.pc = "done"
    /\ call.outcome.kind = "raise" /\ call.outcome.exc = "TypeError"
    /\ sent = <<>>

(* ------------------------------------------------------------------ *)
(* C7                                                                  *)
(* ------------------------------------------------------------------ *)

\* C7 as stated: a create_method call on one instance changes what get_url builds,
\* or whether it fails, for no method name on any other instance.
C7_NoLeak ==
  [][(call.pc = "idle" /\ call'.op = "create_method") =>
       \A d \in Constructed \ {call'.self}, m \in MethodNames :
         get_url(instances[d].base_url, REST_METHODS', m, <<>>, None)
           = get_url(instances[d].base_url, REST_METHODS, m, <<>>, None)]_vars

(* ------------------------------------------------------------------ *)
(* C8                                                                  *)
(* ------------------------------------------------------------------ *)

\* C8: an accessor call sends at most one request: one while it waits for the
\* answer, and still one, never a second, when it has ended with a status error or
\* a transport error.
C8_AtMostOneRequest ==
  call.op \in Accessors =>
    /\ Len(sent) <= 1
    /\ call.pc = "waiting" => Len(sent) = 1 /\ call.outcome = NoOutcome
    /\ (call.pc = "done" /\ call.outcome.kind = "raise"
        /\ call.outcome.exc \in {"APIRequestException", "ConnectionError"}) => Len(sent) = 1

\* an accessor call ended with the status error after its one request
C8_Witness ==
  /\ call.op \in Accessors /\ call.pc = "done"
  /\ call.outcome.kind = "raise" /\ call.outcome.exc = "APIRequestException"
  /\ call.response.status_code = 404
  /\ Len(sent) = 1

(* ------------------------------------------------------------------ *)
(* C9                                                                  *)
(* ------------------------------------------------------------------ *)

IsStringOrDatetime(v) == v.type \in {"str", "datetime"}

\* the canonical string of a time argument: a string itself, a datetime's ISO-8601
\* text, the start time's without its sub-second part
CanonicalStart(v) == IF v.type = "str" THEN v.v ELSE IsoWhole

CanonicalEnd(v) == IF v.type = "str" THEN v.v ELSE IsoFraction

\* C9: with both times given as strings or datetimes, the startTime and endTime of
\* the query string decode to the canonical strings of the arguments (a string
\* unchanged, a datetime as ISO-8601, the start's sub-second part zero), and the
\* URL is the one the call with those strings asks for.
C9_CanonicalTimes ==
  (/\ IsTimeseries /\ BothTimes
   /\ IsStringOrDatetime(call.args.start_time) /\ IsStringOrDatetime(call.args.end_time)) =>
    /\ sent # <<>>
    /\ QueryValue(sent[1], startTime) = CanonicalStart(call.args.start_time)
    /\ QueryValue(sent[1], endTime) = CanonicalEnd(call.args.end_time)
    /\ Return(sent[1])
         = timeseries_url(SelfBase, REST_METHODS, call.args.entity_uuid,
                          PyStr(CanonicalStart(call.args.start_time)),
                          PyStr(CanonicalEnd(call.args.end_time)), call.args.last_24)

\* get_timeseries with two datetimes that have a sub-second part
C9_Witness ==
  /\ IsTimeseries /\ sent # <<>>
  /\ call.args.start_time = PyDatetime(1, 5) /\ call.args.end_time = PyDatetime(1, 5)
  /\ QueryValue(sent[1], endTime) = IsoFraction

(* ------------------------------------------------------------------ *)
(* C10                                                                 *)
(* ------------------------------------------------------------------ *)

\* the one time argument that was given
LoneTime == IF call.args.start_time # None THEN call.args.start_time ELSE call.args.end_time

\* str() of the lone value, were it put in a URL
LoneText == IF LoneTime.type = "datetime" THEN IsoWhole ELSE str(LoneTime)

====
